---- MODULE Spec2Model ----
(***************************************************************************)
(* StarBrickVII: the host (script.js) loads WASM codec engines into        *)
(* dedicated workers (engine-worker.js), registers them in S.engines and   *)
(* drives encode/decode requests through them, either single-shot          *)
(* (callEngine) or chunk by chunk (processFile).                           *)
(*                                                                         *)
(* The host is single-threaded: one event-handler run (with the microtasks *)
(* it queues) is one action.  A worker handles one message per action.     *)
(* The channel between the host and one worker is FIFO in both directions. *)
(* Worker.terminate() discards the worker's queued tasks and empties the   *)
(* message queue of the host-side port (HTML standard, "terminate a        *)
(* worker").                                                               *)
(***************************************************************************)
EXTENDS Integers, Sequences, FiniteSets, TLC

\* ------------------------------------------------------------------ bounds
\* loadWasmEngine invocations, where the loads are what is explored.
MaxLoads == 2
\* callEngine invocations beside those loads.
LoadOps == 1
\* processFile invocations, where one chunked operation is what is explored.
FileOps == 1
\* callEngine / processFile invocations, where concurrent operations are
\* what is explored.
MaxOps == 2
\* processFile's CHUNK_SIZE (64 * 1024 in the source), scaled down.
CHUNK_SIZE == 2
\* callEngine invocations against the plugin whose allocator misbehaves.
AbiOps == 2
\* callEngine invocations while the presets load.
PresetOps == 1
\* execute invocations, where the dialogue with the user is what is explored.
UiOps == 2

\* The inputs the user supplies: empty, below one chunk, exactly one chunk,
\* a chunk and a remainder, whole chunks, several chunks and a remainder.
Files == {<<>>, <<1>>, <<0, 1>>, <<1, 0, 1>>, <<0, 1, 1, 0>>, <<1, 1, 0, 0, 1>>}

\* The same, for the runs with several operations at once.
SmallFiles == {<<1>>, <<1, 0, 1>>, <<0, 1, 1, 0>>}

Modes == {"encode", "decode"}

\* ------------------------------------------------------------ the plugins
\* The WASM modules the environment can serve, by URL.  A module is what
\* the worker can observe of it: whether it is obtained (fetch, compile and
\* instantiate all succeed; a failure of any of them throws alike),
\* its export table, the strings and flags its exports return, which
\* exports trap, whether sb_alloc can return 0 (for a request's buffers, for
\* the length cells of the load) or an address whose buffer does not lie
\* inside the memory, and its codec.
AllExports ==
  {"sb_encode", "sb_decode", "sb_alloc", "sb_free", "sb_get_id", "sb_get_name",
   "sb_get_desc", "sb_is_binary_safe", "sb_is_self_inverse", "sb_is_reversible",
   "memory"}

URLs == {"a1.wasm", "a2.wasm", "b1.wasm", "bad.wasm", "trap.wasm", "missing.wasm"}

Module(url) ==
  CASE url = "a1.wasm" ->
         [obtained |-> TRUE, exports |-> AllExports, traps |-> {},
          id |-> "a", name |-> "Alpha", desc |-> "first",
          binarySafe |-> 1, selfInverse |-> 0, reversible |-> 1,
          fetchMayFail |-> FALSE,
          allocMayFail |-> FALSE, allocAtLoadMayFail |-> FALSE, allocMayStray |-> FALSE,
          codec |-> "bytewise"]
    [] url = "a2.wasm" ->
         [obtained |-> TRUE, exports |-> AllExports \ {"sb_get_desc", "sb_decode"}, traps |-> {},
          id |-> "a", name |-> "Alpha2", desc |-> "",
          binarySafe |-> 0, selfInverse |-> 0, reversible |-> 0,
          fetchMayFail |-> FALSE,
          allocMayFail |-> TRUE, allocAtLoadMayFail |-> FALSE, allocMayStray |-> FALSE,
          codec |-> "block"]
    [] url = "b1.wasm" ->
         [obtained |-> TRUE, exports |-> AllExports \ {"sb_get_name", "sb_get_desc", "sb_decode"},
          traps |-> {},
          id |-> "b", name |-> "", desc |-> "",
          binarySafe |-> 1, selfInverse |-> 1, reversible |-> 0,
          fetchMayFail |-> FALSE,
          allocMayFail |-> FALSE, allocAtLoadMayFail |-> FALSE, allocMayStray |-> FALSE,
          codec |-> "swap"]
    [] url = "bad.wasm" ->
         [obtained |-> TRUE, exports |-> AllExports \ {"sb_free", "sb_is_reversible"}, traps |-> {},
          id |-> "a", name |-> "Bad", desc |-> "",
          binarySafe |-> 1, selfInverse |-> 0, reversible |-> 1,
          fetchMayFail |-> FALSE,
          allocMayFail |-> FALSE, allocAtLoadMayFail |-> FALSE, allocMayStray |-> FALSE,
          codec |-> "bytewise"]
    [] url = "trap.wasm" ->
         [obtained |-> TRUE, exports |-> AllExports, traps |-> {"sb_get_id"},
          id |-> "b", name |-> "Trap", desc |-> "",
          binarySafe |-> 1, selfInverse |-> 0, reversible |-> 1,
          fetchMayFail |-> FALSE,
          allocMayFail |-> FALSE, allocAtLoadMayFail |-> FALSE, allocMayStray |-> FALSE,
          codec |-> "bytewise"]
    [] url = "abi.wasm" ->
         [obtained |-> TRUE, exports |-> AllExports \ {"sb_get_desc"}, traps |-> {},
          id |-> "m", name |-> "Marshal", desc |-> "",
          binarySafe |-> 1, selfInverse |-> 0, reversible |-> 1,
          fetchMayFail |-> FALSE,
          allocMayFail |-> TRUE, allocAtLoadMayFail |-> TRUE, allocMayStray |-> TRUE,
          codec |-> "bytewise"]
    [] url = "twobit.wasm" ->
         [obtained |-> TRUE, exports |-> AllExports, traps |-> {},
          id |-> "2bit", name |-> "TwoBit", desc |-> "two bits per symbol",
          binarySafe |-> 1, selfInverse |-> 0, reversible |-> 1,
          fetchMayFail |-> FALSE,
          allocMayFail |-> FALSE, allocAtLoadMayFail |-> FALSE, allocMayStray |-> FALSE,
          codec |-> "bytewise"]
    [] url = "engines/base64.wasm" ->
         [obtained |-> TRUE, exports |-> AllExports, traps |-> {},
          id |-> "base64", name |-> "Base64", desc |-> "text armour",
          binarySafe |-> 1, selfInverse |-> 0, reversible |-> 1,
          fetchMayFail |-> TRUE,
          allocMayFail |-> FALSE, allocAtLoadMayFail |-> FALSE, allocMayStray |-> FALSE,
          codec |-> "block"]
    [] url = "engines/hex.wasm" ->
         [obtained |-> TRUE, exports |-> AllExports, traps |-> {},
          id |-> "hex", name |-> "Hex", desc |-> "",
          binarySafe |-> 1, selfInverse |-> 0, reversible |-> 1,
          fetchMayFail |-> TRUE,
          allocMayFail |-> FALSE, allocAtLoadMayFail |-> FALSE, allocMayStray |-> FALSE,
          codec |-> "bytewise"]
    [] url = "engines/binary.wasm" ->
         [obtained |-> TRUE, exports |-> AllExports \ {"sb_decode"}, traps |-> {},
          id |-> "binary", name |-> "Binary", desc |-> "",
          binarySafe |-> 1, selfInverse |-> 1, reversible |-> 0,
          fetchMayFail |-> TRUE,
          allocMayFail |-> FALSE, allocAtLoadMayFail |-> FALSE, allocMayStray |-> FALSE,
          codec |-> "swap"]
    [] OTHER ->
         [obtained |-> FALSE, exports |-> {}, traps |-> {},
          id |-> "", name |-> "", desc |-> "",
          binarySafe |-> 0, selfInverse |-> 0, reversible |-> 0,
          fetchMayFail |-> FALSE,
          allocMayFail |-> FALSE, allocAtLoadMayFail |-> FALSE, allocMayStray |-> FALSE,
          codec |-> "bytewise"]

EngineIds == {"a", "b"}

\* script.js:1-5 -- the modules loadPresets loads, and their IDs.
PRESET_ENGINES == <<"engines/base64.wasm", "engines/hex.wasm", "engines/binary.wasm">>

PresetIds == {"base64", "hex", "binary"}

\* The modules imported where the dialogue is what is explored: one that
\* needs its whole input to decode, one that reports no decode at all.
UiURLs == {"engines/hex.wasm", "a2.wasm"}

\* The arguments typed after "use" there.
UiArgs == {"hex", "a"}

\* The texts entered in the modal, as code points.
Texts == {<<65>>}

\* The files chosen in the file dialog: content and MIME type.
DataFiles ==
  {[bytes |-> <<1>>, type |-> "text/plain"],
   [bytes |-> <<1, 0, 1>>, type |-> "application/octet-stream"]}

\* The modules imported where lookups are what is explored.
UseURLs == {"a1.wasm", "b1.wasm", "twobit.wasm"}

\* A module whose allocator misbehaves in every way, and its ID.
AbiURLs == {"abi.wasm"}

AbiIds == {"m"}

RECURSIVE Flatten(_)
\* Concatenation of a sequence of byte sequences, in order.
Flatten(ss) == IF ss = <<>> THEN <<>> ELSE Head(ss) \o Flatten(Tail(ss))

\* The codecs.  "bytewise": every byte is translated on its own, so the
\* output of a concatenation is the concatenation of the outputs.  "swap":
\* bytewise and its own inverse.  "block": the output depends on the block
\* as a whole: nothing for a block of one byte, else the block behind its
\* length.
ByteImage(codec, fnName, b) ==
  CASE codec = "swap" -> <<1 - b>>
    [] codec = "bytewise" /\ fnName = "sb_encode" -> IF b = 0 THEN <<0>> ELSE <<1, 0>>
    [] OTHER -> IF b = 0 THEN <<>> ELSE <<1>>

Codec(codec, fnName, chunk) ==
  IF codec = "block"
    THEN (IF Len(chunk) < 2 THEN <<>> ELSE <<Len(chunk)>> \o chunk)
    ELSE Flatten([i \in 1..Len(chunk) |-> ByteImage(codec, fnName, chunk[i])])

\* Output of a concatenation equals the concatenation of the outputs.
ChunkBoundaryAgnostic(url) == Module(url).codec \in {"bytewise", "swap"}

\* ------------------------------------------------------- engine-worker.js
ErrorMsg(id, text) == [id |-> id, type |-> "error", error |-> text]

\* engine-worker.js:16 -- the exports a module must have.
Required ==
  <<"sb_encode", "sb_alloc", "sb_free", "sb_get_id", "sb_is_binary_safe",
    "sb_is_self_inverse", "sb_is_reversible", "memory">>

\* Mutant: the required-export check is skipped.
MissingExports_None(exports) == <<>>

\* engine-worker.js:17 -- the required exports the module lacks, in list order.
MissingExports(exports) == SelectSeq(Required, LAMBDA r : r \notin exports)

\* Calling exports[name](...): a TypeError when the export is absent, a
\* RuntimeError when the plugin traps, "" when the call returns.
CallError(mod, name) ==
  IF name \notin mod.exports THEN "exports." \o name \o " is not a function"
  ELSE IF name \in mod.traps THEN "unreachable"
  ELSE ""

\* engine-worker.js:26-49 -- the exports the load calls, in call order, once
\* the required-export check has passed.
LoadCalls(mod) ==
  <<"sb_alloc", "sb_get_id", "sb_free">>
  \o (IF "sb_get_name" \in mod.exports THEN <<"sb_alloc", "sb_get_name", "sb_free">> ELSE <<>>)
  \o (IF "sb_get_desc" \in mod.exports THEN <<"sb_alloc", "sb_get_desc", "sb_free">> ELSE <<>>)
  \o <<"sb_is_binary_safe", "sb_is_self_inverse", "sb_is_reversible">>

\* engine-worker.js:51 -- engineInfo.
EngineInfo(mod) ==
  [id |-> mod.id,
   name |-> IF "sb_get_name" \in mod.exports THEN mod.name ELSE mod.id,
   desc |-> IF "sb_get_desc" \in mod.exports THEN mod.desc ELSE "",
   binarySafe |-> mod.binarySafe = 1,
   selfInverse |-> mod.selfInverse = 1,
   reversible |-> mod.reversible = 1]

\* Addresses in a plugin's linear memory: its size, and where sb_alloc puts
\* a length cell and an input buffer when it succeeds.
MemSize == 64

LenCell == 8

InBuf == 16

\* One call of an export, as the plugin sees it.
Call(fn, args, ret) == [fn |-> fn, args |-> args, ret |-> ret]

\* engine-worker.js:26-45 -- the string exports the load reads, in order.
Getters(mod) ==
  SelectSeq(<<"sb_get_id", "sb_get_name", "sb_get_desc">>, LAMBDA g : g \in mod.exports)

\* A load in which the fetch succeeds and every sb_alloc does.
Sound == [fetched |-> TRUE, zero |-> "", onNull |-> "writes"]

\* What the environment may do to one load.  The fetch of a preset path can
\* fail.  sb_alloc can return 0 for the length cell of one string export;
\* the export is then called with the address 0, where it either writes
\* the length (address 0 is inside the memory) or traps.
LoadOutcomes(url) ==
  {Sound}
  \cup (IF Module(url).obtained /\ Module(url).fetchMayFail
          THEN {[Sound EXCEPT !.fetched = FALSE]} ELSE {})
  \cup (IF Module(url).obtained /\ Module(url).allocAtLoadMayFail
          THEN {[fetched |-> TRUE, zero |-> g, onNull |-> n] :
                  g \in {Getters(Module(url))[i] : i \in 1..Len(Getters(Module(url)))},
                  n \in {"writes", "traps"}}
          ELSE {})

\* A call of the load that throws: a missing or trapping export, or a
\* string export that traps on the length cell 0.
StepError(mod, how, name) ==
  IF CallError(mod, name) # "" THEN CallError(mod, name)
  ELSE IF name = how.zero /\ how.onNull = "traps" THEN "memory access out of bounds"
  ELSE ""

\* Mutant: the worker reports 'loaded' whatever the export check and the
\* metadata reads did.
LoadReply_Unchecked(id, url, how) ==
  IF ~Module(url).obtained \/ ~how.fetched THEN ErrorMsg(id, "Failed to fetch")
  ELSE [id |-> id, type |-> "loaded", payload |-> EngineInfo(Module(url))]

\* engine-worker.js:7-54 with the catch of 86-88: the one message a load
\* request is answered with.
LoadReply(id, url, how) ==
  LET mod == Module(url)
      missing == MissingExports(mod.exports)
      failing == SelectSeq(LoadCalls(mod), LAMBDA c : StepError(mod, how, c) # "")
  IN IF ~mod.obtained \/ ~how.fetched THEN ErrorMsg(id, "Failed to fetch")
     ELSE IF missing # <<>> THEN ErrorMsg(id, "Missing export: " \o Head(missing))
     ELSE IF failing # <<>> THEN ErrorMsg(id, StepError(mod, how, Head(failing)))
     ELSE [id |-> id, type |-> "loaded", payload |-> EngineInfo(mod)]

\* Mutant: the metadata is read before the exports are verified.
LoadTrace_ReadsFirst(url, how) ==
  LET mod == Module(url)
      names == SelectSeq(LoadCalls(mod), LAMBDA c : c \in mod.exports)
  IN IF ~mod.obtained \/ ~how.fetched THEN <<>>
     ELSE [i \in 1..Len(names) |-> Call(names[i], <<>>, 0)]

\* engine-worker.js:26-49 -- the calls of exports a load makes, with their
\* arguments, up to the first that throws: per string export sb_alloc(4),
\* the export on the cell, sb_free(cell, 4); then the three flags.
LoadTrace(url, how) ==
  LET mod == Module(url)
      names == LoadCalls(mod)
      cell(g) == IF how.zero = g THEN 0 ELSE LenCell
      bad == {i \in 1..Len(names) : StepError(mod, how, names[i]) # ""}
      last == IF bad = {} THEN Len(names) ELSE CHOOSE i \in bad : \A j \in bad : i <= j
      entry(i) ==
        CASE names[i] = "sb_alloc" -> Call("sb_alloc", <<4>>, cell(names[i + 1]))
          [] names[i] = "sb_free" -> Call("sb_free", <<cell(names[i - 1]), 4>>, 0)
          [] names[i] \in {"sb_get_id", "sb_get_name", "sb_get_desc"} ->
               Call(names[i], <<cell(names[i])>>, 0)
          [] OTHER -> Call(names[i], <<>>, 0)
  IN IF ~mod.obtained \/ ~how.fetched \/ MissingExports(mod.exports) # <<>> THEN <<>>
     ELSE [i \in 1..last |-> entry(i)]

\* What sb_alloc may do in one encode/decode request: both allocations
\* succeed, the input buffer's returns 0, the out-length cell's does, or
\* the input buffer's returns an address at the end of the memory.
AllocOutcomes(url) ==
  {"ok"}
  \cup (IF url # "" /\ Module(url).allocMayFail THEN {"in0", "len0"} ELSE {})
  \cup (IF url # "" /\ Module(url).allocMayStray THEN {"stray"} ELSE {})

\* engine-worker.js:61, 65 -- the addresses the two sb_alloc calls return.
InPtr(alloc) == IF alloc = "in0" THEN 0 ELSE IF alloc = "stray" THEN MemSize ELSE InBuf

OutLenPtr(alloc) == IF alloc = "len0" THEN 0 ELSE LenCell

\* engine-worker.js:63 -- Uint8Array.prototype.set throws a RangeError when
\* the source does not fit behind the offset.
CopyFails(inPtr, len) == inPtr + len > MemSize

\* engine-worker.js:78 -- the terminal result is posted for a request
\* tagged isLast only.
PostsResult(isLast) == isLast

\* engine-worker.js:55-85 with the catch of 86-88: the messages one
\* encode/decode request is answered with, in posting order.  wasmUrl is the
\* module the worker holds ("" while wasmExports is null).
CodecReply(m, wasmUrl, alloc) ==
  LET mod == Module(wasmUrl)
      fnName == IF m.type = "encode" THEN "sb_encode" ELSE "sb_decode"
      out == Codec(mod.codec, fnName, m.payload.chunk)
  IN IF wasmUrl = "" THEN <<ErrorMsg(m.id, "Engine not loaded")>>
     ELSE IF InPtr(alloc) = 0 THEN <<ErrorMsg(m.id, "sb_alloc failed")>>
     ELSE IF CopyFails(InPtr(alloc), Len(m.payload.chunk))
       THEN <<ErrorMsg(m.id, "offset is out of bounds")>>
     ELSE IF OutLenPtr(alloc) = 0 THEN <<ErrorMsg(m.id, "sb_alloc for outLenPtr failed")>>
     ELSE IF CallError(mod, fnName) # "" THEN <<ErrorMsg(m.id, CallError(mod, fnName))>>
     ELSE (IF out # <<>> THEN <<[id |-> m.id, type |-> "chunk", payload |-> out]>> ELSE <<>>)
          \o (IF PostsResult(m.payload.isLast) THEN <<[id |-> m.id, type |-> "result"]>> ELSE <<>>)

\* engine-worker.js:61-83 -- the calls of exports one encode/decode request
\* makes, with their arguments.
CodecTrace(m, wasmUrl, alloc) ==
  LET mod == Module(wasmUrl)
      fnName == IF m.type = "encode" THEN "sb_encode" ELSE "sb_decode"
      len == Len(m.payload.chunk)
      inPtr == InPtr(alloc)
      outLenPtr == OutLenPtr(alloc)
  IN IF wasmUrl = "" THEN <<>>
     ELSE <<Call("sb_alloc", <<len>>, inPtr)>>
          \o (IF inPtr = 0 \/ CopyFails(inPtr, len) THEN <<>>
              ELSE <<Call("sb_alloc", <<4>>, outLenPtr)>>
                   \o (IF outLenPtr = 0 THEN <<Call("sb_free", <<inPtr, len>>, 0)>>
                       ELSE (IF fnName \in mod.exports
                               THEN <<Call(fnName, <<inPtr, len, outLenPtr>>, 0)>> ELSE <<>>)
                            \o <<Call("sb_free", <<inPtr, len>>, 0),
                                 Call("sb_free", <<outLenPtr, 4>>, 0)>>))

\* ----------------------------------------------------------- validateEngine
\* Values an engine object's encode/decode hand back in .output: a string
\* (its UTF-16 code units), a Uint8Array (its bytes) or null.
Str(cs) == [t |-> "str", v |-> cs]

Bytes(bs) == [t |-> "bytes", v |-> bs]

Null == [t |-> "null", v |-> <<>>]

\* script.js:416 -- 'StarBrickVII_VALIDATION_123'.
testStr ==
  <<83, 116, 97, 114, 66, 114, 105, 99, 107, 86, 73, 73, 95, 86, 65, 76, 73, 68,
    65, 84, 73, 79, 78, 95, 49, 50, 51>>

\* script.js:417.
testBinary == <<0, 1, 2, 3, 127, 128, 255, 0, 10, 13, 32, 65, 90, 97, 122, 0>>

\* The byte-order mark U+FEFF and the replacement character U+FFFD.
BOM == 65279

FFFD == 65533

\* TextEncoder: UTF-8 of a string over ASCII, U+FEFF and U+FFFD.
Utf8(c) ==
  CASE c < 128 -> <<c>>
    [] c = BOM -> <<239, 187, 191>>
    [] OTHER -> <<239, 191, 189>>

TextEncode(cs) == Flatten([i \in 1..Len(cs) |-> Utf8(cs[i])])

StartsWith(bs, p) == Len(bs) >= Len(p) /\ SubSeq(bs, 1, Len(p)) = p

RECURSIVE Utf8Decode(_)
\* UTF-8 decoding, malformed input replaced (fatal: false).  A well-formed
\* sequence of any other non-ASCII code point is given as U+FFFD as well:
\* the result is only ever compared with ASCII text.
Utf8Decode(bs) ==
  IF bs = <<>> THEN <<>>
  ELSE IF bs[1] < 128 THEN <<bs[1]>> \o Utf8Decode(Tail(bs))
  ELSE IF StartsWith(bs, <<239, 187, 191>>) THEN <<BOM>> \o Utf8Decode(SubSeq(bs, 4, Len(bs)))
  ELSE IF StartsWith(bs, <<239, 191, 189>>) THEN <<FFFD>> \o Utf8Decode(SubSeq(bs, 4, Len(bs)))
  ELSE <<FFFD>> \o Utf8Decode(Tail(bs))

\* script.js:428, 438 -- new TextDecoder().decode(bytes): ignoreBOM is false,
\* so one leading byte-order mark is dropped.
TextDecode(bs) ==
  IF StartsWith(bs, <<239, 187, 191>>) THEN Utf8Decode(SubSeq(bs, 4, Len(bs)))
  ELSE Utf8Decode(bs)

\* The bytes an engine sees of its argument.
ToBytes(x) == IF x.t = "str" THEN TextEncode(x.v) ELSE x.v

\* The transformations an engine object's encode or decode may be.
Behaviours ==
  {"absent", "throws", "null", "empty", "id", "text", "bom", "not", "low7", "drop"}

\* eng.encode(x) / eng.decode(x): a TypeError when the object has no such
\* method, an Error when the engine fails, else the object it resolves to.
EngCall(beh, method, x) ==
  LET bs == ToBytes(x)
      out(v) == [threw |-> FALSE, error |-> "", output |-> v]
  IN CASE beh = "absent" ->
            [threw |-> TRUE, error |-> "eng." \o method \o " is not a function", output |-> Null]
       [] beh = "throws" -> [threw |-> TRUE, error |-> "Engine failure", output |-> Null]
       [] beh = "null" -> out(Null)
       [] beh = "empty" -> out(Bytes(<<>>))
       [] beh = "id" -> out(Bytes(bs))
       [] beh = "text" -> out(Str(IF x.t = "str" THEN x.v ELSE TextDecode(bs)))
       [] beh = "bom" -> out(Bytes(<<239, 187, 191>> \o bs))
       [] beh = "not" -> out(Bytes([i \in 1..Len(bs) |-> 255 - bs[i]]))
       [] beh = "low7" -> out(Bytes([i \in 1..Len(bs) |-> bs[i] % 128]))
       [] OTHER -> out(Bytes(SubSeq(bs, 1, Len(bs) - 1)))

\* The engine objects validateEngine is applied to.
Engs ==
  [reversible : BOOLEAN, selfInverse : BOOLEAN, binarySafe : BOOLEAN,
   encode : Behaviours, decode : Behaviours]

\* !x.output
Falsy(v) == v.t = "null" \/ (v.t = "str" /\ v.v = <<>>)

\* script.js:428, 438 -- typeof output === 'string' ? output : decode(output).
AsString(v) == IF v.t = "str" THEN v.v ELSE TextDecode(v.v)

RECURSIVE Decimal(_)
Decimal(cs) == IF cs = <<>> THEN 0 ELSE 10 * Decimal(SubSeq(cs, 1, Len(cs) - 1)) + (cs[Len(cs)] - 48)

\* script.js:450 -- output instanceof Uint8Array ? output : new Uint8Array(output).
\* Of a string the constructor takes ToIndex: the number the string
\* spells (decimal digits; anything else counts 0), and the array is zeroed.
AsUint8Array(v) ==
  IF v.t = "bytes" THEN v.v
  ELSE LET n == IF \A i \in 1..Len(v.v) : v.v[i] \in 48..57 THEN Decimal(v.v) ELSE 0
       IN [i \in 1..n |-> 0]

Returned(ok, error) == [settled |-> "returned", ok |-> ok, error |-> error]

\* Mutant: the exception leaves validateEngine.
Caught_Rethrown(error) == [settled |-> "thrown", ok |-> FALSE, error |-> error]

\* script.js:459-461 -- catch (e) { return { ok: false, error: e.message } }.
Caught(error) == Returned(FALSE, error)

\* script.js:443-456 -- stage 4.
ValidateBinary(eng) ==
  LET encBin == EngCall(eng.encode, "encode", Bytes(testBinary))
      decBin == EngCall(eng.decode, "decode", encBin.output)
      decBytes == AsUint8Array(decBin.output)
  IN IF ~eng.binarySafe THEN Returned(TRUE, "")
     ELSE IF encBin.threw THEN Caught(encBin.error)
     ELSE IF Falsy(encBin.output) THEN Returned(FALSE, "Binary-safe encode failed")
     ELSE IF ~(eng.reversible \/ eng.selfInverse) THEN Returned(TRUE, "")
     ELSE IF decBin.threw THEN Caught(decBin.error)
     ELSE IF Falsy(decBin.output) THEN Returned(FALSE, "Binary-safe decode failed")
     ELSE IF Len(decBytes) # Len(testBinary) THEN Returned(FALSE, "Binary-safe size mismatch")
     ELSE IF \E i \in 1..Len(testBinary) : decBytes[i] # testBinary[i]
       THEN Returned(FALSE, "Binary-safe content mismatch")
     ELSE Returned(TRUE, "")

\* script.js:433-440 -- stage 3, then stage 4.
ValidateSelfInverse(eng) ==
  LET enc1 == EngCall(eng.encode, "encode", Str(testStr))
      enc2 == EngCall(eng.encode, "encode", enc1.output)
  IN IF ~eng.selfInverse THEN ValidateBinary(eng)
     ELSE IF enc1.threw THEN Caught(enc1.error)
     ELSE IF Falsy(enc1.output) THEN Returned(FALSE, "Self-inverse encode failed")
     ELSE IF enc2.threw THEN Caught(enc2.error)
     ELSE IF Falsy(enc2.output) THEN Returned(FALSE, "Self-inverse second encode failed")
     ELSE IF AsString(enc2.output) # testStr THEN Returned(FALSE, "Self-inverse mismatch")
     ELSE ValidateBinary(eng)

\* script.js:425-430 -- stage 2, then stage 3.
ValidateReversible(eng, enc) ==
  LET dec == EngCall(eng.decode, "decode", enc.output)
  IN IF ~eng.reversible THEN ValidateSelfInverse(eng)
     ELSE IF dec.threw THEN Caught(dec.error)
     ELSE IF Falsy(dec.output) THEN Returned(FALSE, "Decode failed")
     ELSE IF AsString(dec.output) # testStr THEN Returned(FALSE, "Reversible mismatch")
     ELSE ValidateSelfInverse(eng)

\* script.js:415-462 -- validateEngine: what the call settles with.
ValidateEngine(eng) ==
  LET enc == EngCall(eng.encode, "encode", Str(testStr))
  IN IF enc.threw THEN Caught(enc.error)
     ELSE IF Falsy(enc.output) \/ Len(enc.output.v) = 0
       THEN Returned(FALSE, "Encode produced no output")
     ELSE ValidateReversible(eng, enc)

\* No validateEngine call has been made.
NoValidation == [eng |-> "none"]

\* ---------------------------------------------------------------- state
VARIABLES
  nextRequestId,  \* S.nextRequestId
  engines,        \* S.engines, a Map: its entries in insertion order
  workers,        \* every Worker created so far: status, the module it holds
                  \* (wasmExports), messages posted to it, messages it posted
  listeners,      \* the 'message' listeners attached to workers, in attach order
  loads,          \* the loadWasmEngine invocations
  ops,            \* the callEngine / processFile invocations
  issued,         \* history: the request IDs drawn from S.nextRequestId, in order
  validation,     \* the latest validateEngine call: its argument and what it settled with
  currentEngineId, \* S.currentEngineId
  used,           \* history: the latest "use" command, the Registry and the
                  \* selection it met
  S_mode,         \* S.mode
  inputType,      \* S.inputType: "text", "file", "" for null
  inputData,      \* S.inputData: a text, a File, NoInput for null
  outputData,     \* S.outputData: <<bytes>> for a Blob, <<>> for null
  imode,          \* S.imode
  selectOpts,     \* S.selectOpts: the values of the options on offer
  selectCb,       \* S.selectCb: which callback, "" for null
  dialog,         \* the dialog that is open: "modal" (showModal), "picker" ($dataFi), "none"
  timers,         \* the setTimeout(() => cmds.result(), 500) calls not yet fired
  execs           \* the execute invocations: what was confirmed, how far it is

\* The state of the dialogue with the user.
ui == <<S_mode, inputType, inputData, outputData, imode, selectOpts, selectCb, dialog, timers, execs>>

vars ==
  <<nextRequestId, engines, workers, listeners, loads, ops, issued, validation,
    currentEngineId, used, ui>>

Min(a, b) == IF a < b THEN a ELSE b

\* ------------------------------------------------- S.engines (a JS Map)
EngineIndex(engs, id) ==
  LET hits == {i \in 1..Len(engs) : engs[i].id = id}
  IN IF hits = {} THEN 0 ELSE CHOOSE i \in hits : \A j \in hits : i <= j

MapHas(engs, id) == EngineIndex(engs, id) # 0

MapGet(engs, id) == engs[EngineIndex(engs, id)]

\* Map.prototype.set: an existing key keeps its position.
MapSet(engs, e) ==
  IF MapHas(engs, e.id) THEN [engs EXCEPT ![EngineIndex(engs, e.id)] = e]
  ELSE Append(engs, e)

\* ------------------------------------------------------------------ use
\* The strings of the shell: engine IDs, display names and the arguments
\* typed after "use", each with its characters.
Chars(s) ==
  CASE s = "a" -> <<"a">>
    [] s = "b" -> <<"b">>
    [] s = "2bit" -> <<"2", "b", "i", "t">>
    [] s = "Alpha" -> <<"A", "l", "p", "h", "a">>
    [] s = "TwoBit" -> <<"T", "w", "o", "B", "i", "t">>
    [] s = "ALPHA" -> <<"A", "L", "P", "H", "A">>
    [] s = "alpha" -> <<"a", "l", "p", "h", "a">>
    [] s = "twobit" -> <<"t", "w", "o", "b", "i", "t">>
    [] s = "B" -> <<"B">>
    [] s = "1" -> <<"1">>
    [] s = "2" -> <<"2">>
    [] s = "3" -> <<"3">>
    [] s = "4" -> <<"4">>
    [] s = "0" -> <<"0">>
    [] s = "1st" -> <<"1", "s", "t">>
    [] s = "zz" -> <<"z", "z">>
    [] s = "-1" -> <<"-", "1">>
    [] s = "hex" -> <<"h", "e", "x">>
    [] s = "Hex" -> <<"H", "e", "x">>
    [] s = "Alpha2" -> <<"A", "l", "p", "h", "a", "2">>
    [] OTHER -> <<>>

\* The arguments typed after "use".
UseArgs ==
  {"a", "b", "2bit", "ALPHA", "alpha", "twobit", "B", "1", "2", "3", "4", "0",
   "1st", "zz", "-1"}

\* String.prototype.toLowerCase, one character.
LowerChar(c) ==
  CASE c = "A" -> "a"
    [] c = "B" -> "b"
    [] c = "C" -> "c"
    [] c = "D" -> "d"
    [] c = "E" -> "e"
    [] c = "F" -> "f"
    [] c = "G" -> "g"
    [] c = "H" -> "h"
    [] c = "I" -> "i"
    [] c = "J" -> "j"
    [] c = "K" -> "k"
    [] c = "L" -> "l"
    [] c = "M" -> "m"
    [] c = "N" -> "n"
    [] c = "O" -> "o"
    [] c = "P" -> "p"
    [] c = "Q" -> "q"
    [] c = "R" -> "r"
    [] c = "S" -> "s"
    [] c = "T" -> "t"
    [] c = "U" -> "u"
    [] c = "V" -> "v"
    [] c = "W" -> "w"
    [] c = "X" -> "x"
    [] c = "Y" -> "y"
    [] c = "Z" -> "z"
    [] OTHER -> c

ToLowerCase(cs) == [i \in 1..Len(cs) |-> LowerChar(cs[i])]

\* The value of a decimal digit, -1 for any other character.
Digit(c) ==
  CASE c = "0" -> 0
    [] c = "1" -> 1
    [] c = "2" -> 2
    [] c = "3" -> 3
    [] c = "4" -> 4
    [] c = "5" -> 5
    [] c = "6" -> 6
    [] c = "7" -> 7
    [] c = "8" -> 8
    [] c = "9" -> 9
    [] OTHER -> -1

RECURSIVE Number(_)
Number(ds) == IF ds = <<>> THEN 0 ELSE 10 * Number(SubSeq(ds, 1, Len(ds) - 1)) + Digit(ds[Len(ds)])

\* script.js:499 -- parseInt(arg): an optional sign and the longest run of
\* decimal digits that follows; what comes after the digits is ignored; NaN
\* when there is no digit.  (The arguments have no leading blank and no 0x.)
ParseInt(cs) ==
  LET signed == cs # <<>> /\ cs[1] \in {"-", "+"}
      body == IF signed THEN Tail(cs) ELSE cs
      runs == {k \in 0..Len(body) : \A i \in 1..k : Digit(body[i]) >= 0}
      k == CHOOSE x \in runs : \A y \in runs : y <= x
      mag == Number(SubSeq(body, 1, k))
  IN IF k = 0 THEN [nan |-> TRUE, val |-> 0]
     ELSE [nan |-> FALSE, val |-> IF signed /\ cs[1] = "-" THEN 0 - mag ELSE mag]

\* S.currentEngineId = null.
NoEngine == ""

\* No "use" command has been given.
NoUse == [arg |-> ""]

\* S.inputData = null.
NoInput == [kind |-> "none"]

\* script.js:499-506 -- the ID cmds.use hands to selectEngine for a non-empty
\* argument, NoEngine when it prints "Not found".
Lookup(engs, arg) ==
  LET n == ParseInt(Chars(arg))
      keys == [i \in 1..Len(engs) |-> engs[i].id]
      named == SelectSeq(engs,
                 LAMBDA e : ToLowerCase(Chars(e.name)) = ToLowerCase(Chars(arg)))
  IN IF ~n.nan /\ n.val >= 1 /\ n.val <= Len(keys) THEN keys[n.val]
     ELSE IF MapHas(engs, arg) THEN MapGet(engs, arg).id
     ELSE IF named # <<>> THEN Head(named).id
     ELSE NoEngine

\* ------------------------------------------------------------- promises
\* resolve()/reject() settle a promise once; later calls do nothing.
Settle(op, how, output, error, by) ==
  IF op.promise = "pending"
    THEN [op EXCEPT !.promise = how, !.output = output, !.error = error, !.settledBy = by]
    ELSE op

\* Worker.postMessage: a message to a terminated worker is dropped.
Post(ws, w, m) ==
  IF ws[w].status = "live" THEN [ws EXCEPT ![w].inbox = Append(@, m)] ELSE ws

\* Worker.terminate(): queued work and undelivered messages are discarded.
Terminate(ws, w) ==
  [ws EXCEPT ![w] = [@ EXCEPT !.status = "terminated", !.inbox = <<>>, !.outbox = <<>>]]

\* Mutant: the counter is read and not advanced.
Bump_Same(n) == n

\* S.nextRequestId++ : the value the counter has afterwards.
Bump(n) == n + 1

\* What a worker keeps of the request it handled last: its type, the
\* calls of exports it made and the messages it posted.
NoRequest == [type |-> "", calls |-> <<>>, replies |-> <<>>]

Init ==
  /\ nextRequestId = 0
  /\ engines = <<>>
  /\ workers = <<>>
  /\ listeners = <<>>
  /\ loads = <<>>
  /\ ops = <<>>
  /\ issued = <<>>
  /\ validation = NoValidation
  /\ currentEngineId = NoEngine
  /\ used = NoUse
  /\ S_mode = "encode"
  /\ inputType = ""
  /\ inputData = NoInput
  /\ outputData = <<>>
  /\ imode = "cmd"
  /\ selectOpts = <<>>
  /\ selectCb = ""
  /\ dialog = "none"
  /\ timers = 0
  /\ execs = <<>>

\* ------------------------------------------------------------ the loads
\* script.js:190-193 and 171-188: loadWasmEngine up to its await, that is
\* createWorkerForEngine: a new worker, a fresh request ID, the listener,
\* the load request.
\* script.js:172, 186 -- new Worker('engine-worker.js') with the load
\* request posted to it.
NewWorker(requestId, url) ==
  [status |-> "live", wasmUrl |-> "", last |-> NoRequest,
   inbox |-> <<[id |-> requestId, type |-> "load", payload |-> [wasmUrl |-> url]]>>,
   outbox |-> <<>>]

\* script.js:175-185 -- the load's listener.
LoadListener(w, requestId, l) ==
  [worker |-> w, requestId |-> requestId, kind |-> "load", owner |-> l]

\* script.js:190-193 -- a loadWasmEngine invocation waiting for its worker.
NewLoad(url, isPreset, w, requestId) ==
  [url |-> url, isPreset |-> isPreset, worker |-> w, requestId |-> requestId,
   status |-> "pending", error |-> ""]

LoadWasmEngine(url, isPreset) ==
  /\ LET w == Len(workers) + 1
         requestId == nextRequestId
     IN /\ nextRequestId' = Bump(nextRequestId)
        /\ issued' = Append(issued, requestId)
        /\ workers' = Append(workers, NewWorker(requestId, url))
        /\ listeners' = Append(listeners, LoadListener(w, requestId, Len(loads) + 1))
        /\ loads' = Append(loads, NewLoad(url, isPreset, w, requestId))
  /\ UNCHANGED <<engines, ops, validation, currentEngineId, used, ui>>

\* script.js:215-218 -- loadPresets up to its first await: the load of the
\* first path.  It is called once, when the page starts (810).
LoadPresets ==
  /\ PRESET_ENGINES # <<>>
  /\ \A l \in 1..Len(loads) : ~loads[l].isPreset
  /\ LoadWasmEngine(PRESET_ENGINES[1], TRUE)

\* Mutant: the loop ends at the first load that fails.
NextPreset_StopOnFailure(lds, l) ==
  LET started == Len(SelectSeq(lds, LAMBDA x : x.isPreset))
  IN IF lds[l].isPreset /\ lds[l].status = "ok" /\ started < Len(PRESET_ENGINES)
       THEN PRESET_ENGINES[started + 1] ELSE ""

\* script.js:217-221 -- loadPresets resumed by the end of load l: the path
\* the loop loads next, "" when l is no preset load or the list is done.
NextPreset(lds, l) ==
  LET started == Len(SelectSeq(lds, LAMBDA x : x.isPreset))
  IN IF lds[l].isPreset /\ started < Len(PRESET_ENGINES)
       THEN PRESET_ENGINES[started + 1] ELSE ""

\* script.js:194-203 -- the descriptor a completed load builds.
MakeEngine(info, isPreset, w) ==
  [id |-> info.id, name |-> info.name, desc |-> info.desc,
   binarySafe |-> info.binarySafe, selfInverse |-> info.selfInverse,
   reversible |-> info.reversible, isPreset |-> isPreset, worker |-> w]

\* Mutant: the worker of the overwritten entry is left running.
Overwritten_None(engs, engine) == {}

\* script.js:204-207 -- the workers terminated when the descriptor is installed.
Overwritten(engs, engine) ==
  IF MapHas(engs, engine.id) THEN {MapGet(engs, engine.id).worker} ELSE {}

RECURSIVE TerminateAll(_, _)
TerminateAll(ws, set) ==
  IF set = {} THEN ws
  ELSE LET w == CHOOSE x \in set : TRUE IN TerminateAll(Terminate(ws, w), set \ {w})

\* ---------------------------------------------------------- the dialogue
\* script.js:382-395 -- enterSelect(opts, cb).
EnterSelect(opts, cb) ==
  /\ imode' = "select"
  /\ selectOpts' = opts
  /\ selectCb' = cb

\* script.js:666-674 -- reset().
ResetState ==
  /\ currentEngineId' = NoEngine
  /\ inputType' = ""
  /\ inputData' = NoInput
  /\ imode' = "cmd"
  /\ selectCb' = ""
  /\ selectOpts' = <<>>

\* An execute invocation: the selection it was confirmed with (history),
\* the file it reads, and where it is: "buffering" (648), "awaiting" the
\* operation op (644, 649, 651), "done".
NewExec(stage, file, op) ==
  [engineId |-> currentEngineId, mode |-> S_mode, stage |-> stage, file |-> file, op |-> op]

\* script.js:656-663 -- execute resumed by the operation it awaits, in the
\* turn that settles it: the output is kept and cmds.result scheduled if
\* it resolved, the error printed if not, and reset() either way.
\* os is ops as the turn leaves it.
Resume(os) ==
  LET woken == {x \in 1..Len(execs) :
                  /\ execs[x].stage = "awaiting"
                  /\ ops[execs[x].op].promise = "pending"
                  /\ os[execs[x].op].promise # "pending"}
  IN IF woken = {} THEN UNCHANGED <<currentEngineId, ui>>
     ELSE LET x == CHOOSE y \in woken : TRUE
              op == os[execs[x].op]
          IN /\ execs' = [execs EXCEPT ![x].stage = "done"]
             /\ outputData' = IF op.promise = "resolved" THEN <<op.output>> ELSE outputData
             /\ timers' = IF op.promise = "resolved" THEN timers + 1 ELSE timers
             /\ ResetState
             /\ UNCHANGED <<S_mode, dialog>>

\* ------------------------------------------------------- the operations
NewOp(kind, engineId, w, mode, input) ==
  [kind |-> kind, engineId |-> engineId, worker |-> w, mode |-> mode, input |-> input,
   offset |-> 0, reading |-> FALSE, resultChunks |-> <<>>,
   promise |-> "pending", output |-> <<>>, error |-> "", settledBy |-> -1,
   reqs |-> <<>>,       \* the requests posted: id, byte range, isLast, totalChunks
   arrived |-> <<>>,    \* history: the chunk messages received for its IDs (id, payload)
   errs |-> <<>>,       \* history: the error messages received for its IDs (id, error)
   results |-> <<>>,    \* history: IDs of the result messages received for its IDs
   readErr |-> FALSE]   \* history: the FileReader failed

\* Mutant: the lookup failure is not reported.
Rejected_Not(op, error) == op

\* script.js:229, 262 -- reject(new Error(...)) before anything was posted
\* (the throw of the async processFile rejects its promise alike).
Rejected(op, error) == [op EXCEPT !.promise = "rejected", !.error = error]

\* script.js:226-254 -- callEngine up to the return of the promise.
CallEngine(engineId, type, input) ==
  /\ IF ~MapHas(engines, engineId)
       THEN /\ ops' = Append(ops,
                 Rejected(NewOp("call", engineId, 0, type, input), "Engine not found"))
            /\ UNCHANGED <<nextRequestId, issued, listeners, workers>>
       ELSE LET w == MapGet(engines, engineId).worker
                requestId == nextRequestId
            IN /\ nextRequestId' = Bump(nextRequestId)
               /\ issued' = Append(issued, requestId)
               /\ ops' = Append(ops,
                    [NewOp("call", engineId, w, type, input)
                       EXCEPT !.reqs = <<[id |-> requestId, lo |-> 0, hi |-> Len(input),
                                          isLast |-> TRUE]>>])
               /\ listeners' = Append(listeners,
                    [worker |-> w, requestId |-> requestId, kind |-> "call",
                     owner |-> Len(ops) + 1])
               /\ workers' = Post(workers, w,
                    [id |-> requestId, type |-> type,
                     payload |-> [chunk |-> input, isLast |-> TRUE]])

\* Mutant: the quotient is rounded down.
TotalChunks_Floor(size) == size \div CHUNK_SIZE

\* script.js:259 -- Math.ceil(file.size / CHUNK_SIZE).
TotalChunks(size) == (size + CHUNK_SIZE - 1) \div CHUNK_SIZE

\* script.js:257-272, 310 -- processFile up to the return of the promise:
\* the first processNextChunk starts a read unless the file is empty.
ProcessFile(file, engineId, mode) ==
  /\ IF ~MapHas(engines, engineId)
       THEN ops' = Append(ops,
              Rejected(NewOp("file", engineId, 0, mode, file), "Engine not found"))
       ELSE ops' = Append(ops,
              [NewOp("file", engineId, MapGet(engines, engineId).worker, mode, file)
                 EXCEPT !.reading = (0 < Len(file))])
  /\ UNCHANGED <<nextRequestId, issued, listeners, workers>>

\* Mutant: every chunk is tagged as the last one.
IsLast_Always(offset, size) == TRUE

\* script.js:301 -- the isLast tag of the chunk read at offset.
IsLast(offset, size) == offset + CHUNK_SIZE >= size

\* script.js:273-308 -- reader.onload: post the chunk just read, advance,
\* and (processNextChunk, 268-272) start the next read if bytes remain.
ReaderOnLoad(o) ==
  /\ o \in 1..Len(ops)
  /\ ops[o].reading
  /\ LET op == ops[o]
         size == Len(op.input)
         chunkData == SubSeq(op.input, op.offset + 1, Min(op.offset + CHUNK_SIZE, size))
         requestId == nextRequestId
     IN /\ nextRequestId' = Bump(nextRequestId)
        /\ issued' = Append(issued, requestId)
        /\ listeners' = Append(listeners,
             [worker |-> op.worker, requestId |-> requestId, kind |-> "file", owner |-> o])
        /\ workers' = Post(workers, op.worker,
             [id |-> requestId, type |-> op.mode,
              payload |-> [chunk |-> chunkData, isLast |-> IsLast(op.offset, size),
                           totalChunks |-> TotalChunks(size)]])
        /\ ops' = [ops EXCEPT ![o] =
             [@ EXCEPT !.offset = op.offset + CHUNK_SIZE,
                       !.reading = (op.offset + CHUNK_SIZE < size),
                       !.reqs = Append(@, [id |-> requestId, lo |-> op.offset,
                                           hi |-> Min(op.offset + CHUNK_SIZE, size),
                                           isLast |-> IsLast(op.offset, size),
                                           totalChunks |-> TotalChunks(size)])]]
  /\ UNCHANGED <<engines, loads, validation, currentEngineId, used, ui>>

\* script.js:309 -- reader.onerror: the read in flight fails; no further
\* read is started.
ReaderOnError(o) ==
  /\ o \in 1..Len(ops)
  /\ ops[o].reading
  /\ ops' = [ops EXCEPT ![o] =
       [Settle(@, "rejected", <<>>, "File read error", -1)
          EXCEPT !.reading = FALSE, !.readErr = TRUE]]
  /\ Resume(ops')
  /\ UNCHANGED <<nextRequestId, issued, listeners, workers, engines, loads, validation, used>>

\* ------------------------------------------------------ the worker's turn
\* engine-worker.js:4-89 -- self.onmessage for the oldest queued message.
WorkerOnMessage(w) ==
  /\ w \in 1..Len(workers)
  /\ workers[w].status = "live"
  /\ workers[w].inbox # <<>>
  /\ LET m == Head(workers[w].inbox)
     IN IF m.type = "load"
          THEN \E how \in LoadOutcomes(m.payload.wasmUrl) :
                 LET reply == LoadReply(m.id, m.payload.wasmUrl, how)
                 IN workers' = [workers EXCEPT ![w] =
                      [@ EXCEPT !.inbox = Tail(@),
                                !.outbox = Append(@, reply),
                                !.wasmUrl = IF reply.type = "loaded"
                                              THEN m.payload.wasmUrl ELSE @,
                                !.last = [type |-> "load",
                                          calls |-> LoadTrace(m.payload.wasmUrl, how),
                                          replies |-> <<reply>>]]]
          ELSE \E alloc \in AllocOutcomes(workers[w].wasmUrl) :
                 workers' = [workers EXCEPT ![w] =
                    [@ EXCEPT !.inbox = Tail(@),
                              !.outbox = @ \o CodecReply(m, workers[w].wasmUrl, alloc),
                              !.last = [type |-> m.type,
                                        calls |-> CodecTrace(m, workers[w].wasmUrl, alloc),
                                        replies |-> CodecReply(m, workers[w].wasmUrl, alloc)]]]
  /\ UNCHANGED <<nextRequestId, engines, listeners, loads, ops, issued, validation, currentEngineId, used, ui>>

\* -------------------------------------------------------- the host's turn
\* Mutant: a listener acts on every message of its worker.
Matches_Any(requestId, m) == TRUE

\* script.js:176, 233, 277 -- a listener acts on the messages that carry
\* its request ID.
Matches(requestId, m) == m.id = requestId

\* script.js:232-250 -- callEngine's handler, for a message with its ID.
CallHandler(op, m) ==
  CASE m.type = "chunk" -> [op EXCEPT !.resultChunks = Append(@, m.payload)]
    [] m.type = "result" -> Settle(op, "resolved", Flatten(op.resultChunks), "", m.id)
    [] m.type = "error" -> Settle(op, "rejected", <<>>, m.error, m.id)
    [] OTHER -> op

\* Mutant: the handler has no error branch.
FileHandler_IgnoreError(op, m) ==
  CASE m.type = "chunk" -> [op EXCEPT !.resultChunks = Append(@, m.payload)]
    [] m.type = "result" -> Settle(op, "resolved", Flatten(op.resultChunks), "", m.id)
    [] OTHER -> op

\* Mutant: each handler keeps its own list of chunks.
FileHandler_ResetChunks(op, m) ==
  CASE m.type = "chunk" -> [op EXCEPT !.resultChunks = <<m.payload>>]
    [] m.type = "result" -> Settle(op, "resolved", Flatten(op.resultChunks), "", m.id)
    [] m.type = "error" -> Settle(op, "rejected", <<>>, m.error, m.id)
    [] OTHER -> op

\* script.js:276-294 -- the handler of one chunk request of processFile, for
\* a message with its ID; resultChunks is shared by the operation's handlers.
FileHandler(op, m) ==
  CASE m.type = "chunk" -> [op EXCEPT !.resultChunks = Append(@, m.payload)]
    [] m.type = "result" -> Settle(op, "resolved", Flatten(op.resultChunks), "", m.id)
    [] m.type = "error" -> Settle(op, "rejected", <<>>, m.error, m.id)
    [] OTHER -> op

\* script.js:182, 244, 247, 288, 291 -- removeEventListener: the load
\* handler detaches on any message with its ID, the others on result or error.
Detaches(kind, m) == kind = "load" \/ m.type \in {"result", "error"}

RECURSIVE Dispatch(_, _, _)
\* The listeners ls, in attach order, run on message m.
Dispatch(os, ls, m) ==
  IF ls = <<>> THEN os
  ELSE LET l == Head(ls)
           next == IF l.kind = "call" THEN [os EXCEPT ![l.owner] = CallHandler(@, m)]
                   ELSE IF l.kind = "file" THEN [os EXCEPT ![l.owner] = FileHandler(@, m)]
                   ELSE os
       IN Dispatch(next, Tail(ls), m)

\* History kept beside the handlers: what arrived for the IDs an operation drew.
Record(op, w, m) ==
  IF op.worker = w /\ \E i \in 1..Len(op.reqs) : op.reqs[i].id = m.id
    THEN CASE m.type = "chunk" ->
                [op EXCEPT !.arrived = Append(@, [id |-> m.id, payload |-> m.payload])]
           [] m.type = "error" ->
                [op EXCEPT !.errs = Append(@, [id |-> m.id, error |-> m.error])]
           [] m.type = "result" -> [op EXCEPT !.results = Append(@, m.id)]
           [] OTHER -> op
    ELSE op

\* script.js:175-184 and, resumed by the resolve or reject, 193-212: the end
\* of a load.  On 'loaded' the descriptor is built and installed, the worker
\* of an entry with the same ID being terminated first; on 'error' the load
\* returns {ok: false}.  A load of loadPresets is followed, in the same
\* turn, by the start of the loop's next load (217-218).
LoadSettles(ld, m) ==
  CASE m.type = "loaded" -> [ld EXCEPT !.status = "ok"]
    [] m.type = "error" -> [ld EXCEPT !.status = "failed", !.error = m.error]
    [] OTHER -> ld

\* A 'message' event on worker w: the oldest message it posted is
\* dispatched to the listeners attached to w.
HostOnMessage(w) ==
  /\ w \in 1..Len(workers)
  /\ workers[w].outbox # <<>>
  /\ LET m == Head(workers[w].outbox)
         hit(l) == l.worker = w /\ Matches(l.requestId, m)
         matching == SelectSeq(listeners, hit)
         loadLs == SelectSeq(matching, LAMBDA l : l.kind = "load")
         taken == [workers EXCEPT ![w].outbox = Tail(@)]
         dispatched == Dispatch(ops, matching, m)
         kept == SelectSeq(listeners, LAMBDA l : ~(hit(l) /\ Detaches(l.kind, m)))
     IN /\ ops' = [o \in 1..Len(ops) |-> Record(dispatched[o], w, m)]
        /\ IF loadLs = <<>>
             THEN /\ workers' = taken
                  /\ listeners' = kept
                  /\ UNCHANGED <<engines, loads, nextRequestId, issued>>
             ELSE LET l == Head(loadLs).owner
                      engine == MakeEngine(m.payload, loads[l].isPreset, loads[l].worker)
                      settled == [loads EXCEPT ![l] = LoadSettles(@, m)]
                      running == IF m.type = "loaded"
                                   THEN TerminateAll(taken, Overwritten(engines, engine))
                                   ELSE taken
                      path == NextPreset(settled, l)
                      requestId == nextRequestId
                  IN /\ engines' = IF m.type = "loaded" THEN MapSet(engines, engine) ELSE engines
                     /\ IF path = ""
                          THEN /\ workers' = running
                               /\ listeners' = kept
                               /\ loads' = settled
                               /\ UNCHANGED <<nextRequestId, issued>>
                          ELSE /\ nextRequestId' = Bump(nextRequestId)
                               /\ issued' = Append(issued, requestId)
                               /\ workers' = Append(running, NewWorker(requestId, path))
                               /\ listeners' = Append(kept,
                                    LoadListener(Len(workers) + 1, requestId, Len(loads) + 1))
                               /\ loads' = Append(settled,
                                    NewLoad(path, TRUE, Len(workers) + 1, requestId))
  /\ Resume(ops')
  /\ UNCHANGED <<validation, used>>

\* ------------------------------------------------- the dialogue's handlers
\* script.js:698-704 (and 403-409) -- a selection leaves the menu before
\* its callback runs.
LeaveSelect ==
  /\ imode' = "cmd"
  /\ selectOpts' = <<>>
  /\ selectCb' = ""

\* script.js:646 -- nonStreamingEngines.
nonStreamingEngines == {"hex", "base64"}

\* script.js:635-664 -- execute() up to its first await.  No engine under
\* S.currentEngineId, or an input that is no File on the file path, throws
\* into the catch and reset() follows at once.
Execute ==
  LET failed ==
        /\ execs' = Append(execs, NewExec("done", <<>>, 0))
        /\ ResetState
        /\ UNCHANGED <<nextRequestId, issued, ops, listeners, workers, S_mode, outputData,
                       dialog, timers>>
      started ==
        /\ execs' = Append(execs, NewExec("awaiting", <<>>, Len(ops) + 1))
        /\ LeaveSelect
        /\ UNCHANGED <<currentEngineId, S_mode, inputType, inputData, outputData, dialog, timers>>
  IN IF ~MapHas(engines, currentEngineId) THEN failed
     ELSE IF inputType = "text"
       THEN CallEngine(currentEngineId, S_mode, TextEncode(inputData.text)) /\ started
     ELSE IF inputData.kind # "file" THEN failed
     ELSE IF S_mode = "decode" /\ MapGet(engines, currentEngineId).id \in nonStreamingEngines
       THEN /\ execs' = Append(execs, NewExec("buffering", inputData.bytes, 0))
            /\ LeaveSelect
            /\ UNCHANGED <<nextRequestId, issued, ops, listeners, workers, currentEngineId,
                           S_mode, inputType, inputData, outputData, dialog, timers>>
     ELSE ProcessFile(inputData.bytes, currentEngineId, S_mode) /\ started

\* script.js:695-710 (and 397-411) -- handleInput in select mode with the
\* number of an option: the callback of the menu runs on it.  "operation"
\* is selectEngine's (596) followed by askInputSource (599-620), "source"
\* askInputSource's (603-619), "confirm" confirmOp's (629-632), "result"
\* cmds.result's (522-570: a short output is printed, no pager).
SelectOption(n) ==
  /\ imode = "select"
  /\ n \in 1..Len(selectOpts)
  /\ LET sel == selectOpts[n]
     IN CASE selectCb = "operation" ->
               /\ S_mode' = sel
               /\ EnterSelect(<<"text", "file">>, "source")
               /\ UNCHANGED <<nextRequestId, issued, ops, listeners, workers, currentEngineId,
                              inputType, inputData, outputData, dialog, timers, execs>>
          [] selectCb = "source" ->
               /\ inputType' = sel
               /\ dialog' = IF sel = "text" THEN "modal" ELSE "picker"
               /\ LeaveSelect
               /\ UNCHANGED <<nextRequestId, issued, ops, listeners, workers, currentEngineId,
                              S_mode, inputData, outputData, timers, execs>>
          [] selectCb = "confirm" /\ sel = "yes" -> Execute
          [] selectCb = "confirm" /\ sel # "yes" ->
               /\ ResetState
               /\ UNCHANGED <<nextRequestId, issued, ops, listeners, workers, S_mode,
                              outputData, dialog, timers, execs>>
          [] OTHER ->
               /\ LeaveSelect
               /\ UNCHANGED <<nextRequestId, issued, ops, listeners, workers, currentEngineId,
                              S_mode, inputType, inputData, outputData, dialog, timers, execs>>
  /\ UNCHANGED <<engines, loads, validation, used>>

\* script.js:622-633 -- confirmOp().
ConfirmOp == EnterSelect(<<"yes", "no">>, "confirm")

\* script.js:321-331 and 606-614 -- the modal is closed with a text (OK) or
\* without (Cancel): the text becomes the input and confirmOp asks, or the
\* dialogue is reset.
ModalClose(val) ==
  /\ dialog = "modal"
  /\ dialog' = "none"
  /\ IF val = NoInput
       THEN ResetState
       ELSE /\ inputData' = val
            /\ ConfirmOp
            /\ UNCHANGED <<currentEngineId, inputType>>
  /\ UNCHANGED <<nextRequestId, engines, workers, listeners, loads, ops, issued, validation,
                 used, S_mode, outputData, timers, execs>>

\* script.js:782-800 -- the 'change' event of the file dialog opened by
\* askInputSource (617), with the file f chosen.
DataFileChange(f) ==
  /\ dialog = "picker"
  /\ dialog' = "none"
  /\ IF currentEngineId = NoEngine
       THEN UNCHANGED <<inputData, imode, selectOpts, selectCb>>
     ELSE IF /\ ~MapGet(engines, currentEngineId).binarySafe
             /\ f.type # ""
             /\ f.type # "text/plain"
       THEN UNCHANGED <<inputData, imode, selectOpts, selectCb>>
     ELSE /\ inputData' = [kind |-> "file", bytes |-> f.bytes, type |-> f.type]
          /\ ConfirmOp
  /\ UNCHANGED <<nextRequestId, engines, workers, listeners, loads, ops, issued, validation,
                 currentEngineId, used, S_mode, inputType, outputData, timers, execs>>

\* script.js:617 -- the file dialog is dismissed: no event reaches the page.
DismissPicker ==
  /\ dialog = "picker"
  /\ dialog' = "none"
  /\ UNCHANGED <<nextRequestId, engines, workers, listeners, loads, ops, issued, validation,
                 currentEngineId, used, S_mode, inputType, inputData, outputData, imode,
                 selectOpts, selectCb, timers, execs>>

\* script.js:648-649 -- execute resumed by S.inputData.arrayBuffer(): the
\* buffer goes to callEngine with S.currentEngineId and S.mode as they are
\* now.  A promise callEngine rejects at once throws into the catch, and
\* reset() follows in the same turn.
ArrayBufferReady(x) ==
  /\ x \in 1..Len(execs)
  /\ execs[x].stage = "buffering"
  /\ CallEngine(currentEngineId, S_mode, execs[x].file)
  /\ IF MapHas(engines, currentEngineId)
       THEN /\ execs' = [execs EXCEPT ![x].stage = "awaiting", ![x].op = Len(ops) + 1]
            /\ UNCHANGED <<currentEngineId, inputType, inputData, imode, selectOpts, selectCb>>
       ELSE /\ execs' = [execs EXCEPT ![x].stage = "done", ![x].op = Len(ops) + 1]
            /\ ResetState
  /\ UNCHANGED <<engines, loads, validation, used, S_mode, outputData, dialog, timers>>

\* script.js:659 and 513-522 -- the timer execute set fires: cmds.result()
\* enters its menu (S.outputData is set by then).
ResultTimer ==
  /\ timers > 0
  /\ timers' = timers - 1
  /\ IF outputData = <<>>
       THEN UNCHANGED <<imode, selectOpts, selectCb>>
       ELSE EnterSelect(<<"view", "download", "hex">>, "result")
  /\ UNCHANGED <<nextRequestId, engines, workers, listeners, loads, ops, issued, validation,
                 currentEngineId, used, S_mode, inputType, inputData, outputData, dialog, execs>>

\* ------------------------------------------------------- specifications
\* The environment: which modules are loaded, which operations are started
\* and with what input, within the bounds.
StartLoad(urls, maxLoads) ==
  \E url \in urls : Len(loads) < maxLoads /\ LoadWasmEngine(url, FALSE)

\* Each of the modules is imported at most once.
LoadOnce(urls) ==
  \E url \in urls :
    /\ \A i \in 1..Len(loads) : loads[i].url # url
    /\ LoadWasmEngine(url, FALSE)

StartCall(ids, modes, inputs, maxOps) ==
  \E id \in ids, type \in modes, input \in inputs :
    /\ Len(ops) < maxOps
    /\ CallEngine(id, type, input)
    /\ UNCHANGED <<engines, loads, validation, currentEngineId, used, ui>>

StartFile(ids, modes, inputs, maxOps) ==
  \E id \in ids, mode \in modes, file \in inputs :
    /\ Len(ops) < maxOps
    /\ ProcessFile(file, id, mode)
    /\ UNCHANGED <<engines, loads, validation, currentEngineId, used, ui>>

ReaderLoads == \E o \in 1..Len(ops) : ReaderOnLoad(o)

ReaderFails == \E o \in 1..Len(ops) : ReaderOnError(o)

WorkerRuns == \E w \in 1..Len(workers) : WorkerOnMessage(w)

HostReceives == \E w \in 1..Len(workers) : HostOnMessage(w)

\* One chunked operation at a time, against an engine whose allocations
\* can fail and that has no decode export.
NextFile ==
  \/ LoadOnce({"a2.wasm"})
  \/ StartFile({"a"}, Modes, Files, FileOps)
  \/ ReaderLoads
  \/ ReaderFails
  \/ WorkerRuns
  \/ HostReceives

SpecFile == Init /\ [][NextFile]_vars

\* Several operations at once, single-shot and chunked.
Next ==
  \/ LoadOnce({"a1.wasm"})
  \/ StartCall({"a"}, Modes, SmallFiles, MaxOps)
  \/ StartFile({"a"}, Modes, SmallFiles, MaxOps)
  \/ ReaderLoads
  \/ ReaderFails
  \/ WorkerRuns
  \/ HostReceives

Spec == Init /\ [][Next]_vars

\* Loads of every kind of module, with single-shot operations beside them.
NextLoad ==
  \/ StartLoad(URLs, MaxLoads)
  \/ StartCall(EngineIds, {"encode"}, {<<1>>}, LoadOps)
  \/ WorkerRuns
  \/ HostReceives

SpecLoad == Init /\ [][NextLoad]_vars

\* The page starts: loadPresets, with single-shot operations beside it.
NextPresets ==
  \/ LoadPresets
  \/ StartCall(PresetIds, {"encode"}, {<<1>>}, PresetOps)
  \/ WorkerRuns
  \/ HostReceives

SpecPresets == Init /\ [][NextPresets]_vars

\* script.js:594-595 -- the operations selectEngine offers for an engine.
OperationOpts(eng) ==
  <<"encode">> \o (IF eng.reversible \/ eng.selfInverse THEN <<"decode">> ELSE <<>>)

\* script.js:581-597 -- selectEngine(id) for a registered id: the engine
\* is selected and the operation menu entered.
SelectEngine(id) ==
  /\ currentEngineId' = id
  /\ EnterSelect(OperationOpts(MapGet(engines, id)), "operation")

\* script.js:677-737 and 489-508 -- handleInput in command mode with the
\* line "use arg", arg not empty: cmds.use looks the engine up and
\* selectEngine selects it.  The command line takes no input while a
\* dialog is open.
Use(arg) ==
  /\ arg # ""
  /\ imode = "cmd" /\ dialog = "none"
  /\ LET found == Lookup(engines, arg)
     IN IF found # NoEngine
          THEN SelectEngine(found)
          ELSE UNCHANGED <<currentEngineId, imode, selectOpts, selectCb>>
  /\ used' = [arg |-> arg, engines |-> engines, was |-> currentEngineId]
  /\ UNCHANGED <<nextRequestId, engines, workers, listeners, loads, ops, issued, validation,
                 S_mode, inputType, inputData, outputData, dialog, timers, execs>>

\* script.js:666-674 -- reset(), after an operation or a cancelled dialogue.
Reset ==
  /\ currentEngineId # NoEngine
  /\ ResetState
  /\ UNCHANGED <<nextRequestId, engines, workers, listeners, loads, ops, issued, validation,
                 used, S_mode, outputData, dialog, timers, execs>>

UseCommand == \E arg \in UseArgs : Use(arg)

\* Imports, and "use" commands between them.
NextUse ==
  \/ LoadOnce(UseURLs)
  \/ UseCommand
  \/ Reset
  \/ WorkerRuns
  \/ HostReceives

SpecUse == Init /\ [][NextUse]_vars

\* The dialogue: engines are imported, selected with "use", and operations
\* are confirmed and run, text and file input alike.
NextUi ==
  \/ LoadOnce(UiURLs)
  \/ (Len(execs) < UiOps /\ \E arg \in UiArgs : Use(arg))
  \/ (\E n \in 1..3 : SelectOption(n))
  \/ (\E text \in Texts : ModalClose([kind |-> "text", text |-> text]))
  \/ ModalClose(NoInput)
  \/ (\E f \in DataFiles : DataFileChange(f))
  \/ DismissPicker
  \/ (\E x \in 1..Len(execs) : ArrayBufferReady(x))
  \/ ResultTimer
  \/ ReaderLoads
  \/ ReaderFails
  \/ WorkerRuns
  \/ HostReceives

SpecUi == Init /\ [][NextUi]_vars

\* A plugin whose allocator fails or strays, loaded and called.
NextAbi ==
  \/ LoadOnce(AbiURLs)
  \/ StartCall(AbiIds, Modes, Files, AbiOps)
  \/ WorkerRuns
  \/ HostReceives

SpecAbi == Init /\ [][NextAbi]_vars

\* script.js:415 -- a call validateEngine(eng).  No code of the host makes
\* one; the calls of this specification are the environment's.
Validate ==
  /\ \E eng \in Engs : validation' = [eng |-> eng, result |-> ValidateEngine(eng)]
  /\ UNCHANGED <<nextRequestId, engines, workers, listeners, loads, ops, issued,
                 currentEngineId, used, ui>>

\* validateEngine on its own, over engine objects of every kind.
SpecValidate == Init /\ [][Validate]_vars

\* ================================================================ claims
ReqIds(op) == {op.reqs[i].id : i \in 1..Len(op.reqs)}

Payloads(arrived) == [i \in 1..Len(arrived) |-> arrived[i].payload]

\* C1: for a chunk-boundary-agnostic engine, a chunked operation
\* (processFile) and a single-shot request (callEngine) over the same
\* non-empty input, in the same mode and against the same context, return
\* the same buffer.
C1_ChunkedEqualsSingleShot ==
  \A i, j \in 1..Len(ops) :
    ( /\ ops[i].kind = "file" /\ ops[j].kind = "call"
      /\ ops[i].worker # 0 /\ ops[i].worker = ops[j].worker
      /\ ChunkBoundaryAgnostic(workers[ops[i].worker].wasmUrl)
      /\ ops[i].mode = ops[j].mode
      /\ ops[i].input = ops[j].input /\ ops[i].input # <<>>
      /\ ops[i].promise = "resolved" /\ ops[j].promise = "resolved" )
    => ops[i].output = ops[j].output

\* A chunked operation of two chunks and a single-shot request over the
\* same input have both returned a non-empty buffer.
C1_Witness ==
  \E i, j \in 1..Len(ops) :
    /\ ops[i].kind = "file" /\ ops[j].kind = "call"
    /\ ops[i].worker # 0 /\ ops[i].worker = ops[j].worker
    /\ ops[i].mode = ops[j].mode /\ ops[i].input = ops[j].input
    /\ Len(ops[i].reqs) >= 2
    /\ Len(ops[i].arrived) >= 2
    /\ ops[i].promise = "resolved" /\ ops[j].promise = "resolved"
    /\ ops[j].output # <<>>

\* The listeners of a chunked operation still attached: its requests that
\* have been posted and have not received their result or error.
Outstanding(o) ==
  {i \in 1..Len(listeners) : listeners[i].kind = "file" /\ listeners[i].owner = o}

\* C2: during a chunked operation at most one of its requests is
\* outstanding: chunk k+1 is posted only after the result or error of
\* chunk k has been received.
C2_OneOutstanding ==
  \A o \in 1..Len(ops) : ops[o].kind = "file" => Cardinality(Outstanding(o)) <= 1

\* C3: once an error message has arrived for a chunk of a chunked
\* operation, the operation has failed and has no output buffer; it failed
\* with the first error it received (or with the file-read failure that
\* came before it), whatever arrived afterwards.
C3_ErrorRejects ==
  \A o \in 1..Len(ops) :
    (ops[o].kind = "file" /\ ops[o].errs # <<>>)
    => /\ ops[o].promise = "rejected"
       /\ ops[o].output = <<>>
       /\ \/ ops[o].error = ops[o].errs[1].error
          \/ ops[o].readErr /\ ops[o].error = "File read error"

\* A chunked operation received a payload for an earlier chunk, then an
\* error, and then the result of its final chunk.
C3_Witness ==
  \E o \in 1..Len(ops) :
    /\ ops[o].kind = "file"
    /\ ops[o].errs # <<>>
    /\ \E k \in 1..Len(ops[o].arrived) : ops[o].arrived[k].id < ops[o].errs[1].id
    /\ ops[o].resultChunks # <<>>
    /\ \E k \in 1..Len(ops[o].results) : ops[o].results[k] > ops[o].errs[1].id
    /\ ops[o].promise = "rejected"
    /\ ops[o].error = ops[o].errs[1].error

\* C4: a chunked operation that has resolved was resolved by the result
\* message of the request for its final input chunk, and its output is the
\* concatenation, in arrival order, of every chunk payload received for
\* any of its requests.
C4_OutputIsAllPayloads ==
  \A o \in 1..Len(ops) :
    (ops[o].kind = "file" /\ ops[o].promise = "resolved")
    => /\ ops[o].output = Flatten(Payloads(ops[o].arrived))
       /\ \E i \in 1..Len(ops[o].reqs) :
            /\ ops[o].reqs[i].id = ops[o].settledBy
            /\ ops[o].reqs[i].hi = Len(ops[o].input)
            /\ i = Len(ops[o].reqs)
       /\ ops[o].settledBy \in {ops[o].results[i] : i \in 1..Len(ops[o].results)}

\* A chunked operation of three chunks resolved with the payloads of the
\* first two, the last chunk having produced none.
C4_Witness ==
  \E o \in 1..Len(ops) :
    /\ ops[o].kind = "file" /\ ops[o].promise = "resolved"
    /\ Len(ops[o].reqs) >= 3
    /\ Len(ops[o].arrived) = 2
    /\ ops[o].arrived[1].id < ops[o].arrived[2].id
    /\ ops[o].arrived[2].id < ops[o].settledBy
    /\ ops[o].output # <<>>

\* The loads that have completed and reported engine ID id.
LoadedAs(id) ==
  {l \in 1..Len(loads) : loads[l].status = "ok" /\ Module(loads[l].url).id = id}

Registered(w) == \E i \in 1..Len(engines) : engines[i].worker = w

\* C5: the Registry holds one entry per engine ID; the context of every
\* completed load is either the one its ID's entry refers to or has been
\* terminated, so at most one live context of completed loads answers to
\* one ID.
C5_OneEntryPerId ==
  /\ \A i, j \in 1..Len(engines) : engines[i].id = engines[j].id => i = j
  /\ \A l \in 1..Len(loads) :
       loads[l].status = "ok"
       => \/ workers[loads[l].worker].status = "terminated" /\ ~Registered(loads[l].worker)
          \/ /\ workers[loads[l].worker].status = "live"
             /\ MapHas(engines, Module(loads[l].url).id)
             /\ MapGet(engines, Module(loads[l].url).id).worker = loads[l].worker
  /\ \A id \in EngineIds :
       Cardinality({l \in LoadedAs(id) : workers[loads[l].worker].status = "live"}) <= 1

\* Two loads reported the same ID: one entry, the first context terminated.
C5_Witness ==
  \E l1, l2 \in 1..Len(loads) :
    /\ l1 # l2
    /\ loads[l1].status = "ok" /\ loads[l2].status = "ok"
    /\ Module(loads[l1].url).id = Module(loads[l2].url).id
    /\ workers[loads[l1].worker].status = "terminated"
    /\ Len(engines) = 1
    /\ engines[1].worker = loads[l2].worker

\* The exports the claim names as required.
C6_Required ==
  {"sb_encode", "sb_alloc", "sb_free", "sb_get_id", "sb_is_binary_safe",
   "sb_is_self_inverse", "sb_is_reversible"}

\* C6: a load of a module that lacks a required export never completes, its
\* failure is "Missing export: <name>" for an export the module lacks, and
\* its context is never registered.
C6_MissingExportFails ==
  \A l \in 1..Len(loads) :
    (Module(loads[l].url).obtained /\ C6_Required \ Module(loads[l].url).exports # {})
    => /\ loads[l].status # "ok"
       /\ loads[l].status = "failed"
            => \E r \in C6_Required \ Module(loads[l].url).exports :
                 loads[l].error = "Missing export: " \o r
       /\ ~Registered(loads[l].worker)

\* The load of a module without sb_free and sb_is_reversible has failed.
C6_Witness ==
  \E l \in 1..Len(loads) :
    /\ loads[l].url = "bad.wasm"
    /\ loads[l].status = "failed"
    /\ loads[l].error = "Missing export: sb_free"

\* A module whose load fails at some step: the fetch, the export check, or
\* a trap in one of the exports the load calls.
MustFail(url) ==
  \/ ~Module(url).obtained
  \/ \E i \in 1..Len(Required) : Required[i] \notin Module(url).exports
  \/ \E i \in 1..Len(LoadCalls(Module(url))) : LoadCalls(Module(url))[i] \in Module(url).traps

\* The descriptor the load l stands for.
Expected(l) ==
  LET mod == Module(loads[l].url)
  IN [id |-> mod.id,
      name |-> IF "sb_get_name" \in mod.exports THEN mod.name ELSE mod.id,
      desc |-> IF "sb_get_desc" \in mod.exports THEN mod.desc ELSE "",
      binarySafe |-> mod.binarySafe = 1, selfInverse |-> mod.selfInverse = 1,
      reversible |-> mod.reversible = 1,
      isPreset |-> loads[l].isPreset, worker |-> loads[l].worker]

C7_NoPartial ==
  /\ \A l \in 1..Len(loads) :
       MustFail(loads[l].url) => loads[l].status # "ok" /\ ~Registered(loads[l].worker)
  /\ \A i \in 1..Len(engines) :
       \E l \in 1..Len(loads) : loads[l].status = "ok" /\ engines[i] = Expected(l)

C7_Frame ==
  \A l \in 1..Len(loads) :
    (loads[l].status = "pending" /\ loads'[l].status = "failed")
    => /\ engines' = engines
       /\ \A w \in 1..Len(workers) : workers'[w].status = workers[w].status

\* C7: a load that fails at any step never completes and never registers
\* its context; the step in which it fails changes no Registry entry and
\* terminates no context; every Registry entry is the complete descriptor
\* of a completed load.
C7_FailedLoadChangesNothing == [](C7_NoPartial) /\ [][C7_Frame]_vars

\* A load has failed while the entry with the same ID, installed by an
\* earlier load, is still there with its context live.
C7_Witness ==
  \E l1, l2 \in 1..Len(loads) :
    /\ loads[l1].status = "ok" /\ loads[l2].status = "failed"
    /\ Module(loads[l1].url).id = Module(loads[l2].url).id
    /\ Len(engines) = 1 /\ engines[1] = Expected(l1)
    /\ workers[loads[l1].worker].status = "live"

\* C8: the request IDs drawn by loads, single-shot calls and chunk requests
\* are strictly increasing in the order drawn, hence pairwise distinct, and
\* all below the counter.
C8_IdsIncrease ==
  /\ \A i, j \in 1..Len(issued) : i < j => issued[i] < issued[j]
  /\ \A i \in 1..Len(issued) : issued[i] < nextRequestId

\* A load, a single-shot call and two chunk requests have drawn IDs.
C8_Witness ==
  /\ \E l \in 1..Len(loads) : loads[l].status = "ok"
  /\ \E o \in 1..Len(ops) : ops[o].kind = "call" /\ Len(ops[o].reqs) = 1
  /\ \E o \in 1..Len(ops) : ops[o].kind = "file" /\ Len(ops[o].reqs) >= 2
  /\ Len(issued) >= 4

OwnPayloads(op, id) ==
  Payloads(SelectSeq(op.arrived, LAMBDA a : a.id = id))

\* C9 as stated: the output of a resolved operation is the payloads that
\* carried the ID of the request whose result resolved it.
C9_OwnRequestOnly ==
  \A o \in 1..Len(ops) :
    ops[o].promise = "resolved" => ops[o].output = OwnPayloads(ops[o], ops[o].settledBy)

\* C9 amended: an operation is settled only by a result or error carrying an
\* ID drawn by that operation, and the output of a resolved operation is
\* the payloads that carried IDs drawn by that operation, in arrival order.
C9_OwnOperationOnly ==
  \A o \in 1..Len(ops) :
    /\ ops[o].promise = "resolved"
         => /\ ops[o].settledBy \in ReqIds(ops[o])
            /\ ops[o].settledBy \in {ops[o].results[i] : i \in 1..Len(ops[o].results)}
            /\ ops[o].output = Flatten(Payloads(ops[o].arrived))
    /\ (ops[o].promise = "rejected" /\ ops[o].worker # 0 /\ ~ops[o].readErr)
         => /\ ops[o].settledBy \in ReqIds(ops[o])
            /\ \E i \in 1..Len(ops[o].errs) :
                 /\ ops[o].errs[i].id = ops[o].settledBy
                 /\ ops[o].errs[i].error = ops[o].error

\* Two operations on one context whose requests were interleaved (a call
\* drew its ID between two chunk requests of a chunked operation) have both
\* resolved, with different outputs.
C9_Witness ==
  \E i, j \in 1..Len(ops) :
    /\ ops[i].kind = "file" /\ ops[j].kind = "call"
    /\ ops[i].worker = ops[j].worker
    /\ ops[i].promise = "resolved" /\ ops[j].promise = "resolved"
    /\ Len(ops[i].reqs) >= 2 /\ Len(ops[j].reqs) = 1
    /\ ops[i].reqs[1].id < ops[j].reqs[1].id
    /\ ops[j].reqs[1].id < ops[i].reqs[2].id
    /\ ops[i].output # ops[j].output
    /\ ops[i].output # <<>> /\ ops[j].output # <<>>

\* A context that a completed load registered and that is registered no more.
Replaced(w) ==
  /\ w # 0
  /\ \E l \in 1..Len(loads) : loads[l].status = "ok" /\ loads[l].worker = w
  /\ ~Registered(w)

C10_Step ==
  \A o \in 1..Len(ops) :
    (ops[o].promise = "pending" /\ (Replaced(ops[o].worker))')
    => ops'[o].promise = "pending"

\* C10: a request pending against a context that a load has replaced stays
\* pending: in no step, the replacing one included, is it resolved or rejected.
C10_ReplacedNeverSettles == [][C10_Step]_vars

\* A single-shot request is pending against a context that was replaced
\* and terminated.
C10_Witness ==
  \E o \in 1..Len(ops) :
    /\ ops[o].promise = "pending"
    /\ Len(ops[o].reqs) = 1
    /\ Replaced(ops[o].worker)
    /\ workers[ops[o].worker].status = "terminated"

\* An operation that named an engine ID the Registry did not hold.
C11_Unregistered(op) == op.worker = 0

C11_Failed ==
  \A o \in 1..Len(ops) :
    C11_Unregistered(ops[o])
    => /\ ops[o].promise = "rejected"
       /\ ops[o].error = "Engine not found"
       /\ ops[o].reqs = <<>>
       /\ ops[o].output = <<>>
       /\ \A i \in 1..Len(listeners) :
            listeners[i].kind = "load" \/ listeners[i].owner # o

C11_Step ==
  (Len(ops') = Len(ops) + 1 /\ C11_Unregistered(ops'[Len(ops')]))
  => /\ workers' = workers
     /\ listeners' = listeners
     /\ nextRequestId' = nextRequestId
     /\ issued' = issued

\* C11: an operation that names an engine ID the Registry does not hold
\* fails with "Engine not found"; the step that starts it posts no message
\* to any context, attaches no listener and draws no request ID, and no
\* request is ever sent for it.
C11_EngineNotFound == [](C11_Failed) /\ [][C11_Step]_vars

\* A single-shot and a chunked operation were started while the only load
\* was still in flight; both failed, and the context holds nothing but the
\* load request.
C11_Witness ==
  \E i, j \in 1..Len(ops) :
    /\ ops[i].kind = "call" /\ ops[j].kind = "file"
    /\ C11_Unregistered(ops[i]) /\ C11_Unregistered(ops[j])
    /\ ops[i].promise = "rejected" /\ ops[j].promise = "rejected"
    /\ Len(workers) = 1
    /\ Len(workers[1].inbox) = 1 /\ workers[1].inbox[1].type = "load"
    /\ ops[j].input # <<>>

\* C12 (a consequence of it): when a request of user traffic has been sent
\* to the context of a registered engine, a validateEngine call has been made.
C12_ValidatedBeforeTraffic ==
  \A o \in 1..Len(ops) : ops[o].reqs # <<>> => validation # NoValidation

\* The value v is the probe string: the string itself, or its bytes.
C13_IsProbe(v) == v = Str(testStr) \/ v = Bytes(TextEncode(testStr))

C13_Encode(eng, x) == EngCall(eng.encode, "encode", x).output

C13_Decode(eng, x) == EngCall(eng.decode, "decode", x).output

\* C13: validateEngine returns ok only if the encoded probe string is not
\* empty, decode(encode(probe)) is the probe when reversible,
\* encode(encode(probe)) is the probe when selfInverse, and
\* decode(encode(bytes)) is the 16-byte probe when binarySafe and
\* (reversible or selfInverse).
C13_OkMeansRoundTrips ==
  (validation # NoValidation /\ validation.result.ok)
  => LET eng == validation.eng
         enc == C13_Encode(eng, Str(testStr))
     IN /\ enc.t # "null" /\ Len(enc.v) > 0
        /\ eng.reversible => C13_IsProbe(C13_Decode(eng, enc))
        /\ eng.selfInverse => C13_IsProbe(C13_Encode(eng, enc))
        /\ (eng.binarySafe /\ (eng.reversible \/ eng.selfInverse))
             => C13_Decode(eng, C13_Encode(eng, Bytes(testBinary))) = Bytes(testBinary)

\* The methods a run of the self-test on eng calls can raise an exception.
C14_Raises(eng) ==
  \/ eng.encode \in {"absent", "throws"}
  \/ /\ eng.decode \in {"absent", "throws"}
     /\ eng.reversible \/ (eng.binarySafe /\ eng.selfInverse)

C15_Frees(cs, c) ==
  {j \in 1..Len(cs) : cs[j].fn = "sb_free" /\ cs[j].args = <<c.ret, c.args[1]>>}

\* C15: when a context has finished handling an encode/decode request,
\* every non-zero address sb_alloc returned during it has been passed to
\* sb_free exactly once, with the size allocated.
C15_EveryBufferFreed ==
  \A w \in 1..Len(workers) :
    workers[w].last.type \in Modes
    => \A i \in 1..Len(workers[w].last.calls) :
         LET c == workers[w].last.calls[i]
         IN (c.fn = "sb_alloc" /\ c.ret # 0)
            => Cardinality(C15_Frees(workers[w].last.calls, c)) = 1

\* The addresses a call hands to the plugin.
C16_Pointers(c) ==
  CASE c.fn = "sb_alloc" -> {}
    [] c.fn = "sb_free" -> {c.args[1]}
    [] c.fn \in {"sb_encode", "sb_decode"} -> {c.args[1], c.args[3]}
    [] c.args # <<>> -> {c.args[1]}
    [] OTHER -> {}

C16_AllocationFailed == {"sb_alloc failed", "sb_alloc for outLenPtr failed"}

\* C16: when sb_alloc returned 0 while a context handled a request (load,
\* encode or decode), the request was answered with one allocation-failure
\* error, the buffers obtained before were freed, and no export was called
\* with the address 0.
C16_ZeroPointerFails ==
  \A w \in 1..Len(workers) :
    LET cs == workers[w].last.calls
    IN (\E i \in 1..Len(cs) : cs[i].fn = "sb_alloc" /\ cs[i].ret = 0)
       => /\ Len(workers[w].last.replies) = 1
          /\ workers[w].last.replies[1].type = "error"
          /\ workers[w].last.replies[1].error \in C16_AllocationFailed
          /\ \A i \in 1..Len(cs) :
               (cs[i].fn = "sb_alloc" /\ cs[i].ret # 0)
               => Cardinality(C15_Frees(cs, cs[i])) = 1
          /\ \A i \in 1..Len(cs) : 0 \notin C16_Pointers(cs[i])

\* The module reports reversible or selfInverse.
C17_NeedsDecode(mod) == mod.reversible = 1 \/ mod.selfInverse = 1

\* C17: a load of a module that reports reversible or selfInverse and has
\* no decode export never completes and registers nothing; a module that
\* reports neither flag, and is sound otherwise, does not fail to load for
\* want of a decode export.
C17_DecodeRequiredIffFlagged ==
  \A l \in 1..Len(loads) :
    LET mod == Module(loads[l].url)
    IN /\ (mod.obtained /\ C17_NeedsDecode(mod) /\ "sb_decode" \notin mod.exports)
            => loads[l].status # "ok" /\ ~Registered(loads[l].worker)
       /\ (~MustFail(loads[l].url) /\ ~C17_NeedsDecode(mod))
            => loads[l].status # "failed"

\* C18: an operation on a registered engine whose input is smaller than
\* one chunk (the empty input included), once its input has been read,
\* has issued exactly one request, tagged isLast.
C18_SmallInputOneRequest ==
  \A o \in 1..Len(ops) :
    ( /\ ops[o].worker # 0
      /\ Len(ops[o].input) < CHUNK_SIZE
      /\ ~ops[o].reading /\ ~ops[o].readErr )
    => Len(ops[o].reqs) = 1 /\ ops[o].reqs[1].isLast

\* The loads loadPresets has started, in order.
C19_Batch == SelectSeq(loads, LAMBDA x : x.isPreset)

\* C19: the loads of loadPresets are those of the listed paths, in list
\* order and one after the other; when one has ended, completed or failed,
\* and paths remain, the next has been started; a failed load carries its
\* own error and registers nothing; every completed load's engine is in
\* the Registry, on the context of that load.
C19_BatchRunsThrough ==
  LET P == C19_Batch
  IN /\ Len(P) <= Len(PRESET_ENGINES)
     /\ \A i \in 1..Len(P) :
          /\ P[i].url = PRESET_ENGINES[i]
          /\ i < Len(P) => P[i].status # "pending"
          /\ (P[i].status # "pending" /\ i < Len(PRESET_ENGINES)) => Len(P) > i
          /\ P[i].status = "failed" => P[i].error # "" /\ ~Registered(P[i].worker)
          /\ P[i].status = "ok"
               => /\ MapHas(engines, Module(P[i].url).id)
                  /\ MapGet(engines, Module(P[i].url).id).worker = P[i].worker
                  /\ MapGet(engines, Module(P[i].url).id).isPreset

\* The first listed module loaded, the second failed, the third loaded:
\* two engines are registered.
C19_Witness ==
  LET P == C19_Batch
  IN /\ Len(P) = Len(PRESET_ENGINES) /\ Len(P) >= 3
     /\ P[1].status = "ok" /\ P[2].status = "failed" /\ P[3].status = "ok"
     /\ Len(engines) = 2
     /\ engines[1].worker = P[1].worker /\ engines[2].worker = P[3].worker

\* The argument spells a decimal number.
C20_IsDecimal(cs) == cs # <<>> /\ \A i \in 1..Len(cs) : Digit(cs[i]) >= 0

\* The engines whose display name is the argument, ignoring case.
C20_Named(engs, arg) ==
  SelectSeq(engs, LAMBDA e : ToLowerCase(Chars(e.name)) = ToLowerCase(Chars(arg)))

\* C20: after "use arg", if arg is the ID of a registered engine that
\* engine is selected; otherwise, if it is a display name ignoring case,
\* the engine of that name; otherwise, if it is a decimal n within
\* 1..size, the n-th engine; otherwise the selection is as it was.
C20_LookupOrder ==
  used # NoUse
  => LET engs == used.engines
         arg == used.arg
         n == Number(Chars(arg))
     IN IF MapHas(engs, arg) THEN currentEngineId \in {arg, NoEngine}
        ELSE IF C20_Named(engs, arg) # <<>>
          THEN currentEngineId \in {Head(C20_Named(engs, arg)).id, NoEngine}
        ELSE IF C20_IsDecimal(Chars(arg)) /\ n >= 1 /\ n <= Len(engs)
          THEN currentEngineId \in {engs[n].id, NoEngine}
        ELSE currentEngineId \in {used.was, NoEngine}

\* The least number of chunks of CHUNK_SIZE bytes that hold n bytes.
C21_Ceil(n) == CHOOSE k \in 0..n : k * CHUNK_SIZE >= n /\ (k = 0 \/ (k - 1) * CHUNK_SIZE < n)

\* C21: a chunked operation over a non-empty input of n bytes posts its
\* requests in increasing offset order, the k-th (from 0) carrying bytes
\* [k*C, min((k+1)*C, n)) and tagged with totalChunks = ceil(n/C), isLast
\* being true on request ceil(n/C) - 1 and on no other; once every read has
\* succeeded the requests posted are exactly ceil(n/C).
C21_ChunkingExact ==
  \A o \in 1..Len(ops) :
    (ops[o].kind = "file" /\ ops[o].worker # 0 /\ ops[o].input # <<>>)
    => LET n == Len(ops[o].input)
           reqs == ops[o].reqs
           total == C21_Ceil(n)
       IN /\ Len(reqs) <= total
          /\ \A k \in 1..Len(reqs) :
               /\ reqs[k].lo = (k - 1) * CHUNK_SIZE
               /\ reqs[k].hi = Min(k * CHUNK_SIZE, n)
               /\ reqs[k].totalChunks = total
               /\ reqs[k].isLast <=> (k = total)
               /\ k > 1 => reqs[k - 1].id < reqs[k].id
          /\ (~ops[o].reading /\ ~ops[o].readErr) => Len(reqs) = total

\* A chunked operation over more than one chunk has posted all of its
\* requests, the last of them tagged isLast.
C21_Witness ==
  \E o \in 1..Len(ops) :
    /\ ops[o].kind = "file" /\ ops[o].worker # 0
    /\ Len(ops[o].input) > CHUNK_SIZE
    /\ ~ops[o].reading /\ ~ops[o].readErr
    /\ Len(ops[o].reqs) >= 2
    /\ ops[o].reqs[Len(ops[o].reqs)].isLast

\* C22: an encode/decode request handled by a loaded context, tagged
\* isLast or not, is answered by zero or more chunk messages followed by
\* exactly one terminal message (result or error) and nothing after it.
C22_OneTerminalMessage ==
  \A w \in 1..Len(workers) :
    (workers[w].last.type \in Modes /\ workers[w].wasmUrl # "")
    => LET replies == workers[w].last.replies
       IN /\ replies # <<>>
          /\ replies[Len(replies)].type \in {"result", "error"}
          /\ \A i \in 1..(Len(replies) - 1) : replies[i].type = "chunk"

\* A step in which no operation that has received an error posts a request.
C23_Step ==
  \A o \in 1..Len(ops) :
    (ops[o].kind = "file" /\ ops[o].errs # <<>>) => ops'[o].reqs = ops[o].reqs

\* C23: once an error message for a chunk of a chunked operation has been
\* received, the host posts no further chunk request of that operation.
C23_NoRequestAfterError == [][C23_Step]_vars

\* The load l was refused by the required-export check.
C24_MissingExport(l) ==
  /\ loads[l].status = "failed"
  /\ \E i \in 1..Len(Required) : loads[l].error = "Missing export: " \o Required[i]

\* C24: a load that ends with MissingExport has invoked no export of the
\* plugin: its context made no alloc, free, get_id, get_name, get_desc or
\* capability-flag call.
C24_NoCallBeforeExportCheck ==
  \A l \in 1..Len(loads) :
    C24_MissingExport(l)
    => /\ workers[loads[l].worker].last.type = "load"
       /\ workers[loads[l].worker].last.calls = <<>>

\* The load of a module that has sb_alloc and sb_get_id but lacks sb_free
\* was refused, while the load of a complete module made its calls.
C24_Witness ==
  \E l, k \in 1..Len(loads) :
    /\ loads[l].url = "bad.wasm" /\ C24_MissingExport(l)
    /\ loads[k].status = "ok"
    /\ workers[loads[k].worker].last.type = "load"
    /\ workers[loads[k].worker].last.calls # <<>>

\* The listeners attached to the context w.
C25_Attached(w) == {i \in 1..Len(listeners) : listeners[i].worker = w}

\* The IDs of the requests posted to w that have not received their
\* terminal message: loads not yet answered, encode/decode requests
\* without result or error.
C25_Awaiting(w) ==
  {loads[l].requestId : l \in {k \in 1..Len(loads) :
                                 loads[k].worker = w /\ loads[k].status = "pending"}}
  \cup UNION {{id \in ReqIds(ops[o]) :
                 /\ \A k \in 1..Len(ops[o].results) : ops[o].results[k] # id
                 /\ \A k \in 1..Len(ops[o].errs) : ops[o].errs[k].id # id}
               : o \in {k \in 1..Len(ops) : ops[k].worker = w}}

\* The operation behind a listener has settled.
C25_Settled(l) ==
  IF l.kind = "load" THEN loads[l.owner].status # "pending"
  ELSE ops[l.owner].promise # "pending"

\* C25: once a load, a single-shot call or a chunked operation has settled,
\* none of the listeners it attached is still attached to a live context;
\* the listeners attached to a live context are as many as the requests
\* posted to it that still await their terminal message.
C25_NoListenerOutlivesOperation ==
  \A w \in 1..Len(workers) :
    workers[w].status = "live"
    => /\ \A i \in C25_Attached(w) : ~C25_Settled(listeners[i])
       /\ Cardinality(C25_Attached(w)) = Cardinality(C25_Awaiting(w))

\* The Registry descriptors whose context is w.
C26_Owners(w) == {i \in 1..Len(engines) : engines[i].worker = w}

\* C26: whenever no load is in flight, every context created and not
\* terminated is the context of exactly one Registry descriptor: a failed
\* load leaves no live context, and no context has two descriptors.
C26_LiveContextsAreOwned ==
  (\A l \in 1..Len(loads) : loads[l].status # "pending")
  => \A w \in 1..Len(workers) :
       workers[w].status = "live" => Cardinality(C26_Owners(w)) = 1

\* Nothing of the operation o is in progress: no read of its file, no
\* request of it waiting in its context, no answer to it on the way back.
C27_Quiet(o) ==
  LET w == ops[o].worker
      mine(q) == \E i \in 1..Len(q) : q[i].id \in ReqIds(ops[o])
  IN /\ ~ops[o].reading
     /\ ~mine(workers[w].inbox)
     /\ ~mine(workers[w].outbox)

\* C27: an encode/decode operation started against a registered engine
\* whose context stays live and answers every request resolves or rejects,
\* whatever the input's size, zero included: when nothing of it is in
\* progress any more, its promise is settled.
C27_EveryOperationSettles ==
  \A o \in 1..Len(ops) :
    (ops[o].worker # 0 /\ workers[ops[o].worker].status = "live" /\ C27_Quiet(o))
    => ops[o].promise # "pending"

\* The descriptor's flags of the engine whose context is w allow decode.
C28_Decodes(w) ==
  LET info == EngineInfo(Module(workers[w].wasmUrl))
  IN info.reversible \/ info.selfInverse

\* C28: the operation an execute starts runs against the engine and in
\* the mode that were selected when it was confirmed, whatever commands
\* and completions of other operations changed S.currentEngineId and
\* S.mode meanwhile, and a decode request is only sent to an engine whose
\* descriptor has reversible or selfInverse set.
C28_RunsAsConfirmed ==
  /\ \A x \in 1..Len(execs) :
       execs[x].op # 0
       => /\ ops[execs[x].op].engineId = execs[x].engineId
          /\ ops[execs[x].op].mode = execs[x].mode
  /\ \A o \in 1..Len(ops) :
       (ops[o].mode = "decode" /\ ops[o].reqs # <<>>) => C28_Decodes(ops[o].worker)

====
